---- MODULE Spec2Model ----
(***************************************************************************)
(* nextstep-ai: the plan-progression engine (lib/planner.ts), the          *)
(* completion endpoint (POST /api/plan/complete), the progress figures of  *)
(* the plan page, the home page and the ProgressMeter component, the       *)
(* replan engine (lib/gemini-replan.ts) with the replan-merge,             *)
(* generatePlan (lib/gemini.ts) with the zod schemas of models/Plan.ts,    *)
(* sessions and accounts (lib/auth.ts, /api/auth), the archive route       *)
(* (POST /api/plan/archive) and the timer of the FocusCoach component.     *)
(*                                                                         *)
(* Task ids and milestone names are opaque strings in the program; they    *)
(* are modelled as naturals.  A task carries id and prereqs; its text,     *)
(* minutes, category and successCriteria are copied verbatim by every      *)
(* operation modelled here and take part in no condition.                  *)
(***************************************************************************)
EXTENDS Integers, Sequences, FiniteSets

VARIABLES plan, completedTaskIds, req, nreq, rp, gen,
          users, sessions, tokens, cookie, clock, userId, archived, archivedAt,
          coachState, timeElapsed, timeRemaining, selectedDuration

vars == <<plan, completedTaskIds, req, nreq, rp, gen,
          users, sessions, tokens, cookie, clock, userId, archived, archivedAt,
          coachState, timeElapsed, timeRemaining, selectedDuration>>

(***************************************************************************)
(* Bounds                                                                  *)
(***************************************************************************)
MaxWeeks == 2
MaxMilestones == 2
MaxTasks == 2
MaxPrereqs == 1
MaxClients == 2
MaxRequests == 2
LongWeeks == 5
LongMilestones == 2
LongTasks == 4
MaxMinutes == 2

(***************************************************************************)
(* Generic helpers                                                         *)
(***************************************************************************)
Range(s) == {s[i] : i \in 1..Len(s)}

BoundedSeq(S, n) == UNION {[1..k -> S] : k \in 0..n}

RECURSIVE SumSeq(_)
SumSeq(s) == IF s = <<>> THEN 0 ELSE Head(s) + SumSeq(Tail(s))

RECURSIVE Concat(_)
Concat(ss) == IF ss = <<>> THEN <<>> ELSE Head(ss) \o Concat(Tail(ss))

(***************************************************************************)
(* models/Plan.ts: the plan documents the program is run on                *)
(***************************************************************************)
\* ids of tasks a plan may contain
TaskIds == 1..MaxTasks

\* an id that names no task of any plan (a stale or dangling reference)
StaleId == 0

AllIds == TaskIds \cup {StaleId}

\* prereqs: z.array(z.string()).default([]); listed without repetition
PrereqLists ==
    {p \in BoundedSeq(AllIds, MaxPrereqs) :
        \A i \in 1..Len(p) : \A j \in 1..Len(p) : i < j => p[i] < p[j]}

\* TaskSchema; the k-th task of a plan has id k
TaskLists ==
    UNION {{[k \in 1..n |-> [id |-> k, prereqs |-> ps[k]]] : ps \in [1..n -> PrereqLists]}
           : n \in 0..MaxTasks}

\* number of tasks of each milestone of each week
Shapes ==
    {s \in BoundedSeq(BoundedSeq(0..MaxTasks, MaxMilestones), MaxWeeks) :
        SumSeq([i \in 1..Len(s) |-> SumSeq(s[i])]) <= MaxTasks}

ShapeTotal(s) == SumSeq([i \in 1..Len(s) |-> SumSeq(s[i])])

\* tasks before milestone j of week i in a shape
ShapeOffset(s, i, j) ==
    SumSeq([a \in 1..(i - 1) |-> SumSeq(s[a])]) + SumSeq(SubSeq(s[i], 1, j - 1))

\* PlanSchema / WeekSchema / MilestoneSchema: week i is numbered i, its
\* j-th milestone is named j, and the tasks fill the containers in order
MakePlan(s, ts) ==
    [weeks |->
        [i \in 1..Len(s) |->
            [week |-> i,
             milestones |->
                [j \in 1..Len(s[i]) |->
                    [name |-> j,
                     tasks |-> SubSeq(ts, ShapeOffset(s, i, j) + 1,
                                      ShapeOffset(s, i, j) + s[i][j])]]]]]

\* plans of every shape, of tasks without prereqs
ShapePlans == {MakePlan(s, [k \in 1..ShapeTotal(s) |-> [id |-> k, prereqs |-> <<>>]]) : s \in Shapes}

\* plans of every prereq graph, the tasks in one milestone
GraphPlans == {MakePlan(<< <<Len(ts)>> >>, ts) : ts \in TaskLists}

\* plans of one milestone of tasks without prereqs
LinePlans ==
    {MakePlan(<< <<n>> >>, [k \in 1..n |-> [id |-> k, prereqs |-> <<>>]]) : n \in 0..MaxTasks}

\* plans of two weeks of one milestone each, of tasks without prereqs or
\* of tasks that each need the task before
ReplanPlans ==
    UNION {{MakePlan(<< <<n - b>>, <<b>> >>,
                     [k \in 1..n |-> [id |-> k,
                                      prereqs |-> IF chain /\ k > 1 THEN <<k - 1>> ELSE <<>>]]) :
               b \in 0..n, chain \in BOOLEAN} : n \in 0..MaxTasks}

\* long plans: w weeks of m milestones of t tasks each, no prereqs
LongPlans ==
    {MakePlan([i \in 1..w |-> [j \in 1..m |-> t]],
              [k \in 1..(w * m * t) |-> [id |-> k, prereqs |-> <<>>]])
        : w \in 0..LongWeeks, m \in 0..LongMilestones, t \in 0..LongTasks}

(***************************************************************************)
(* lib/planner.ts                                                          *)
(***************************************************************************)
FlatTaskOf(t, w, m) ==
    [id |-> t.id, prereqs |-> t.prereqs, week |-> w.week, milestoneName |-> m.name]

flattenMilestone(w, m) == [k \in 1..Len(m.tasks) |-> FlatTaskOf(m.tasks[k], w, m)]

flattenWeek(w) == Concat([j \in 1..Len(w.milestones) |-> flattenMilestone(w, w.milestones[j])])

\* a flatten that walks the weeks last to first
flattenPlanReversed(p) ==
    Concat([i \in 1..Len(p.weeks) |-> flattenWeek(p.weeks[Len(p.weeks) - i + 1])])

flattenPlan(p) == Concat([i \in 1..Len(p.weeks) |-> flattenWeek(p.weeks[i])])

\* the "no task" result of getNextReadyTask
Null == [null |-> TRUE]

\* a prereq test with the membership negated
prereqsDoneNegated(task, completedIds) ==
    \A i \in 1..Len(task.prereqs) : task.prereqs[i] \notin completedIds

\* prereqs.every((p) => completedIds.has(p))
prereqsDone(task, completedIds) ==
    \A i \in 1..Len(task.prereqs) : task.prereqs[i] \in completedIds

\* for (const task of flat) { ... }, from the k-th task on
RECURSIVE ScanFrom(_, _, _)
ScanFrom(tasks, completedIds, k) ==
    IF k > Len(tasks) THEN Null
    ELSE IF tasks[k].id \in completedIds THEN ScanFrom(tasks, completedIds, k + 1)
    ELSE IF prereqsDone(tasks[k], completedIds) THEN tasks[k]
    ELSE ScanFrom(tasks, completedIds, k + 1)

\* a scan that gives up at the first incomplete task when it is blocked
getNextReadyTaskStopsAtBlocked(tasks, completedIds) ==
    LET open == {k \in 1..Len(tasks) : tasks[k].id \notin completedIds}
        first == CHOOSE k \in open : \A j \in open : k <= j
    IN  IF open = {} THEN Null
        ELSE IF prereqsDone(tasks[first], completedIds) THEN tasks[first]
        ELSE Null

\* a scan that returns the first incomplete task without looking at prereqs
getNextReadyTaskIgnoresPrereqs(tasks, completedIds) ==
    LET open == {k \in 1..Len(tasks) : tasks[k].id \notin completedIds}
    IN  IF open = {} THEN Null
        ELSE tasks[CHOOSE k \in open : \A j \in open : k <= j]

getNextReadyTask(tasks, completedIds) == ScanFrom(tasks, completedIds, 1)

countTotalTasks(tasks) == Len(tasks)

\* flat.reduce((acc, t) => acc + (completedIds.has(t.id) ? 1 : 0), 0)
RECURSIVE CountFrom(_, _, _)
CountFrom(tasks, completedIds, n) ==
    IF n = 0 THEN 0
    ELSE CountFrom(tasks, completedIds, n - 1)
         + (IF tasks[n].id \in completedIds THEN 1 ELSE 0)

\* a count that takes the size of the completed set
countCompletedSetSize(tasks, completedIds) == Cardinality(completedIds)

countCompleted(tasks, completedIds) == CountFrom(tasks, completedIds, Len(tasks))

(***************************************************************************)
(* JavaScript numbers: IEEE 754 binary64 division, multiplication and      *)
(* Math.round, as used by the percentage expressions.  A positive finite   *)
(* double is its 53-bit significand m (most significant bit first,         *)
(* m[1] = 1) and the exponent e of its last bit: the value is m * 2^e.     *)
(***************************************************************************)
Precision == 53

DPos(m, e) == [kind |-> "pos", m |-> m, e |-> e]

\* the value of an expression of type number that is an integer, NaN, Infinity
JsInt(n) == [kind |-> "int", val |-> n]

RECURSIVE Pow2(_)
Pow2(n) == IF n = 0 THEN 1 ELSE 2 * Pow2(n - 1)

RECURSIVE IntBits(_)
IntBits(n) == IF n = 0 THEN <<>> ELSE IntBits(n \div 2) \o <<n % 2>>

\* the w-bit representation of n < 2^w
FixedBits(n, w) == [j \in 1..w |-> (n \div Pow2(w - j)) % 2]

\* the value of the bits bs[1..i]
RECURSIVE BitsToInt(_, _)
BitsToInt(bs, i) == IF i = 0 THEN 0 ELSE 2 * BitsToInt(bs, i - 1) + bs[i]

\* bs + 1 for a bit string that is not all ones
IncBits(bs) ==
    LET z == CHOOSE i \in 1..Len(bs) : bs[i] = 0 /\ \A j \in (i + 1)..Len(bs) : bs[j] = 1
    IN  [j \in 1..Len(bs) |-> IF j < z THEN bs[j] ELSE IF j = z THEN 1 ELSE 0]

\* round to nearest, ties to even: m is the significand before rounding,
\* rb the first discarded bit, sticky whether any later discarded bit is set
RoundNearestEven(m, e, rb, sticky) ==
    IF rb = 1 /\ (sticky \/ m[Precision] = 1)
    THEN IF \A i \in 1..Precision : m[i] = 1
         THEN DPos([i \in 1..Precision |-> IF i = 1 THEN 1 ELSE 0], e + 1)
         ELSE DPos(IncBits(m), e)
    ELSE DPos(m, e)

\* 2^i mod b
RECURSIVE PowMod2(_, _)
PowMod2(i, b) ==
    IF i = 0 THEN 1 % b
    ELSE LET h == PowMod2(i \div 2, b)
         IN  (((h * h) % b) * (IF i % 2 = 1 THEN 2 ELSE 1)) % b

\* the remainder of r * 2^i by b, and the i-th bit of the binary
\* expansion of r / b after the point (r < b)
RemAfter(r, b, i) == (r * PowMod2(i, b)) % b
QuotientBit(r, b, i) == IF 2 * RemAfter(r, b, i - 1) >= b THEN 1 ELSE 0

\* least k with a * 2^k >= b
RECURSIVE ShiftUp(_, _)
ShiftUp(a, b) == IF a >= b THEN 0 ELSE 1 + ShiftUp(2 * a, b)

\* least k with a < b * 2^(k+1)
RECURSIVE ShiftDown(_, _)
ShiftDown(a, b) == IF a < 2 * b THEN 0 ELSE 1 + ShiftDown(a, 2 * b)

\* a / b for integer-valued a >= 0, b >= 0: the exact quotient, rounded
FDivInt(a, b) ==
    IF b = 0 THEN (IF a = 0 THEN [kind |-> "nan"] ELSE [kind |-> "inf"])
    ELSE IF a = 0 THEN [kind |-> "zero"]
    ELSE LET up == ShiftUp(a, b)
             down == ShiftDown(a, b)
             n == a * Pow2(up)
             d == b * Pow2(down)
             m == [i \in 1..Precision |-> IF i = 1 THEN 1 ELSE QuotientBit(n - d, d, i - 1)]
             rb == QuotientBit(n - d, d, Precision)
             sticky == RemAfter(n - d, d, Precision) > 0
         IN  RoundNearestEven(m, down - up - (Precision - 1), rb, sticky)

\* the bits of bs[1..i] * k + carry, sixteen bits at a time
RECURSIVE MulBits(_, _, _, _)
MulBits(bs, k, i, carry) ==
    IF i = 0 THEN IntBits(carry)
    ELSE LET w == IF i < 16 THEN i ELSE 16
             v == BitsToInt(SubSeq(bs, i - w + 1, i), w) * k + carry
         IN  MulBits(bs, k, i - w, v \div Pow2(w)) \o FixedBits(v % Pow2(w), w)

\* x * k for a double x and an integer-valued k >= 1: the exact product, rounded
FMulInt(x, k) ==
    IF x.kind # "pos" THEN x
    ELSE LET p == MulBits(x.m, k, Precision, 0)
             extra == Len(p) - Precision
             rb == IF extra > 0 THEN p[Precision + 1] ELSE 0
             sticky == \E i \in (Precision + 2)..Len(p) : p[i] = 1
         IN  RoundNearestEven(SubSeq(p, 1, Precision), x.e + extra, rb, sticky)

\* Math.round: the nearest integer, a fraction of exactly one half going up
MathRound(x) ==
    IF x.kind = "nan" THEN [kind |-> "NaN"]
    ELSE IF x.kind = "inf" THEN [kind |-> "Infinity"]
    ELSE IF x.kind = "zero" THEN JsInt(0)
    ELSE IF x.e >= 0 THEN JsInt(BitsToInt(x.m, Precision) * Pow2(x.e))
    ELSE LET intLen == Precision + x.e
         IN  IF intLen < 0 THEN JsInt(0)
             ELSE JsInt(BitsToInt(x.m, intLen) + x.m[intLen + 1])

(***************************************************************************)
(* app/plan/page.tsx: values the plan page derives from the loaded doc     *)
(***************************************************************************)
flat == flattenPlan(plan)

completedSet == Range(completedTaskIds)

total == countTotalTasks(flat)

done == countCompleted(flat, completedSet)

todayTask == getNextReadyTask(flat, completedSet)

\* total > 0 ? Math.round((done / total) * 100) : 0
Percentage(completed, count) ==
    IF count > 0 THEN MathRound(FMulInt(FDivInt(completed, count), 100)) ELSE JsInt(0)

progressPercentage == Percentage(done, total)

\* x < n of JavaScript for a number x and an integer n: false for NaN and
\* for Infinity
JsLess(x, n) == x.kind = "int" /\ x.val < n

\* the result records carry name and description; the icon is decided by
\* the same branch
getProgressMilestoneBandsShifted(percentage) ==
    IF percentage = JsInt(0) THEN [name |-> "Base Camp", description |-> "Starting your journey"]
    ELSE IF JsLess(percentage, 25) THEN [name |-> "Base Camp", description |-> "Preparing for the climb"]
    ELSE IF JsLess(percentage, 76) THEN [name |-> "Climbing", description |-> "Making steady progress"]
    ELSE IF JsLess(percentage, 99) THEN [name |-> "Summit", description |-> "Almost at the top"]
    ELSE [name |-> "Summit Reached", description |-> "Journey complete!"]

getProgressMilestone(percentage) ==
    IF percentage = JsInt(0) THEN [name |-> "Base Camp", description |-> "Starting your journey"]
    ELSE IF JsLess(percentage, 25) THEN [name |-> "Base Camp", description |-> "Preparing for the climb"]
    ELSE IF JsLess(percentage, 75) THEN [name |-> "Climbing", description |-> "Making steady progress"]
    ELSE IF JsLess(percentage, 100) THEN [name |-> "Summit", description |-> "Almost at the top"]
    ELSE [name |-> "Summit Reached", description |-> "Journey complete!"]

milestone == getProgressMilestone(progressPercentage)

\* page.tsx, Next Waypoint section: {todayTask ? <task card> : <"Summit
\* Reached! You've completed your journey!">}
summitReachedShown == todayTask = Null

(***************************************************************************)
(* components/ProgressMeter.tsx                                            *)
(***************************************************************************)
\* total > 0 ? 0 : Math.round((completed/total)*100)
ProgressMeterPct(completed, count) ==
    IF count > 0 THEN JsInt(0) ELSE MathRound(FMulInt(FDivInt(completed, count), 100))

(***************************************************************************)
(* GET /api/plan/list and the home page (app/page.tsx)                     *)
(***************************************************************************)
\* totalTasks of a listed plan: the task counts of all milestones added up
listTotalTasks(p) ==
    SumSeq([i \in 1..Len(p.weeks) |->
              SumSeq([j \in 1..Len(p.weeks[i].milestones) |->
                        Len(p.weeks[i].milestones[j].tasks)])])

\* the entry of the stored plan in the response of the list route
formattedPlan == [completedTaskIds |-> completedTaskIds, totalTasks |-> listTotalTasks(plan)]

\* const completedCount = plan.completedTaskIds.length
homeCompletedCount == Len(formattedPlan.completedTaskIds)

\* plan.totalTasks > 0 ? Math.round((completedCount / plan.totalTasks) * 100) : 0
homeProgress == Percentage(homeCompletedCount, formattedPlan.totalTasks)

\* home page, Completed Trails: plans.filter(plan => progress === 100 &&
\* !plan.archived); the plans of these specifications are not archived
completedPlans == homeProgress.kind = "int" /\ homeProgress.val = 100

(***************************************************************************)
(* POST /api/plan/complete                                                 *)
(***************************************************************************)
Clients == 1..MaxClients

\* result of getCurrentUser(): nobody, the owner of the plan, somebody else
Anon == "anon"
Owner == "owner"
Stranger == "stranger"
Users == {Anon, Owner, Stranger}

\* planId of the request: empty, the stored plan, a well-formed id of no
\* stored plan, a string ObjectId rejects
NoPlanId == ""
PlanId == "plan"
BadPlanId == "malformed"
PlanIds == {NoPlanId, PlanId, "unknown", BadPlanId}

\* taskId of the request after trim(): empty, or any id
NoTaskId == -1
RequestTaskIds == AllIds \cup {NoTaskId}

Idle == [pc |-> "idle", taskId |-> NoTaskId, next |-> <<>>, status |-> 0]

Failed(code) == [pc |-> "done", taskId |-> NoTaskId, next |-> <<>>, status |-> code]

\* current.filter((x) => x !== taskId)
Without(current, taskId) == SelectSeq(current, LAMBDA x : x # taskId)

\* the list with taskId appended whether or not it is a member
ToggledAlwaysAppends(current, taskId) == Append(current, taskId)

\* has ? current.filter(...) : [...current, taskId]
Toggled(current, taskId) ==
    IF taskId \in Range(current) THEN Without(current, taskId)
    ELSE Append(current, taskId)

\* collection.findOne(query): the plan is stored under PlanId, owned by Owner
PlanFound(user, planId) == planId = PlanId /\ (user = Anon \/ user = Owner)

\* the handler up to and including findOne and the computation of next
CompleteReceive(c, user, planId, taskId) ==
    /\ req[c].pc \in {"idle", "done"}
    /\ req' = [req EXCEPT ![c] =
                 IF planId = NoPlanId \/ taskId = NoTaskId THEN Failed(400)
                 ELSE IF planId = BadPlanId THEN Failed(500)
                 ELSE IF ~PlanFound(user, planId) THEN Failed(404)
                 ELSE [pc |-> "update", taskId |-> taskId,
                       next |-> Toggled(completedTaskIds, taskId), status |-> 0]]
    /\ nreq' = nreq + 1
    /\ UNCHANGED <<plan, completedTaskIds, rp, gen>>
    /\ UNCHANGED <<users, sessions, tokens, cookie, clock, userId, archived, archivedAt>>
    /\ UNCHANGED <<coachState, timeElapsed, timeRemaining, selectedDuration>>

\* collection.updateOne({_id}, {$set: {completedTaskIds: next}}) and the reply
CompleteUpdate(c) ==
    /\ req[c].pc = "update"
    /\ completedTaskIds' = req[c].next
    /\ req' = [req EXCEPT ![c] = [@ EXCEPT !.pc = "done", !.status = 200]]
    /\ UNCHANGED <<plan, nreq, rp, gen>>
    /\ UNCHANGED <<users, sessions, tokens, cookie, clock, userId, archived, archivedAt>>
    /\ UNCHANGED <<coachState, timeElapsed, timeRemaining, selectedDuration>>

(***************************************************************************)
(* lib/gemini-replan.ts: replanRemainingTasksNested.  The calls to the     *)
(* generation service are the environment: a run gives, for each entry of  *)
(* modelNamesToTry in order, what the SDK call and the REST call for that  *)
(* model would answer.                                                     *)
(***************************************************************************)
\* modelNamesToTry has six entries
NumModels == 6

Max(a, b) == IF a >= b THEN a ELSE b
Min(a, b) == IF a <= b THEN a ELSE b

\* Math.max(5, Math.min(30, input.remainingTasks.length + 5))
batchSizeAsked(remainingTasks) == Max(5, Min(30, Len(remainingTasks) + 5))

\* a generated text: a body, JSON or not, possibly wrapped in ```json fences
NotJson == [json |-> FALSE]
Json(v) == [json |-> TRUE, value |-> v]
GenText(fenced, body) == [fenced |-> fenced, body |-> body]

\* model.generateContent(prompt): a text, or an error whose message does or
\* does not include "404" / "not found"
SdkText(t) == [kind |-> "text", text |-> t]
SdkNotFound == [kind |-> "error", notFound |-> TRUE]
SdkOtherError == [kind |-> "error", notFound |-> FALSE]

\* fetch(.../v1/models/<name>:generateContent): !response.ok, no text in
\* the first candidate, or a text; fetch itself rejecting
RestNotOk == [kind |-> "notOk"]
RestNoText == [kind |-> "noText"]
RestFetchError == [kind |-> "fetchError"]
RestText(t) == [kind |-> "text", text |-> t]

Thrown(message) == [thrown |-> TRUE, message |-> message]
Returned(v) == [thrown |-> FALSE, value |-> v]

\* rawText.replace(/```json|```/g, "").trim()
cleanedText(t) == t.body

\* JSON.parse(cleanedText) inside try/catch that rethrows
ParseResponse(t) ==
    IF cleanedText(t).json THEN Returned(cleanedText(t).value)
    ELSE Thrown("Failed to parse Gemini response as JSON")

\* for (const tryModelName of modelNamesToTry) over the SDK: the first text
\* ends the loop, an error that is not "not found" is thrown at once
RECURSIVE SdkLoop(_, _)
SdkLoop(sdk, i) ==
    IF i > NumModels THEN [done |-> FALSE, tried |-> NumModels]
    ELSE IF sdk[i].kind = "text" THEN [done |-> TRUE, out |-> Returned(sdk[i].text), tried |-> i]
    ELSE IF ~sdk[i].notFound THEN [done |-> TRUE, out |-> Thrown("generateContent failed"), tried |-> i]
    ELSE SdkLoop(sdk, i + 1)

\* the REST loop: every failure of one model, a parse failure included, is
\* logged and the next model is tried; after the last model the call throws
RECURSIVE RestLoop(_, _)
RestLoop(rest, i) ==
    IF i > NumModels THEN Thrown("Failed to generate replan with SDK and REST API")
    ELSE IF rest[i].kind # "text" THEN RestLoop(rest, i + 1)
    ELSE IF ParseResponse(rest[i].text).thrown THEN RestLoop(rest, i + 1)
    ELSE ParseResponse(rest[i].text)

\* the number of fetches the REST loop makes from model i on
RECURSIVE RestTried(_, _)
RestTried(rest, i) ==
    IF i > NumModels THEN 0
    ELSE IF rest[i].kind # "text" THEN 1 + RestTried(rest, i + 1)
    ELSE IF ParseResponse(rest[i].text).thrown THEN 1 + RestTried(rest, i + 1)
    ELSE 1

\* the calls replanRemainingTasksNested makes in a run: models 1..sdk over
\* the SDK, then models 1..rest over REST (if (!result))
replanAttempts(run) ==
    LET s == SdkLoop(run.sdk, 1)
    IN  [sdk |-> s.tried, rest |-> IF s.done THEN 0 ELSE RestTried(run.rest, 1)]

\* a parse failure on the SDK path gives an empty batch
replanRemainingTasksNestedSwallowsParseError(input, run) ==
    LET s == SdkLoop(run.sdk, 1)
    IN  IF ~s.done THEN RestLoop(run.rest, 1)
        ELSE IF s.out.thrown THEN s.out
        ELSE IF ParseResponse(s.out.value).thrown THEN Returned([tasks |-> <<>>])
        ELSE ParseResponse(s.out.value)

\* the result is what JSON.parse gave, cast to ReplanResponse
replanRemainingTasksNested(input, run) ==
    LET s == SdkLoop(run.sdk, 1)
    IN  IF ~s.done THEN RestLoop(run.rest, 1)
        ELSE IF s.out.thrown THEN s.out
        ELSE ParseResponse(s.out.value)

\* what the generation service did in a run, as the loops above meet it:
\* "parsed" when the text the code settles on is JSON, "unparseable" when the
\* SDK text is not JSON, "error" when an SDK call fails other than with
\* "not found", "none" when no model gives a JSON text on either path
GenerationOutcome(run) ==
    LET answered == {i \in 1..NumModels : run.sdk[i] # SdkNotFound}
    IN  IF answered # {}
        THEN LET i == CHOOSE a \in answered : \A b \in answered : a <= b
             IN  IF run.sdk[i].kind # "text" THEN "error"
                 ELSE IF run.sdk[i].text.body.json THEN "parsed"
                 ELSE "unparseable"
        ELSE IF \E i \in 1..NumModels :
                    run.rest[i].kind = "text" /\ run.rest[i].text.body.json
             THEN "parsed"
             ELSE "none"

(***************************************************************************)
(* What the generation service may answer to a replan prompt               *)
(***************************************************************************)
Categories == {"research", "build", "practice", "network", "apply"}

\* timelineWeeks of the stored document
timelineWeeks == MaxWeeks

AiTask(minutes, category, successCriteria, prereqs, week, milestoneName) ==
    [minutes |-> minutes, category |-> category, successCriteria |-> successCriteria,
     prereqs |-> prereqs, week |-> week, milestoneName |-> milestoneName]

\* tasks that follow the prompt
GoodAiTasks(input) ==
    {AiTask(IF w = 1 THEN 15 ELSE 90, c, "done", pr, w, mn) :
        c \in {"build"},
        pr \in {<<>>} \cup {<<id>> : id \in Range(input.completedTasks)},
        w \in {1, input.timelineWeeks},
        mn \in {1, MaxMilestones + 1}}

\* tasks that do not: minutes, category, successCriteria, week out of the
\* asked ranges, and prereqs on a replaced task or on an id of no task
BadAiTasks(input) ==
    {AiTask(14, "build", "done", <<>>, 1, 1),
     AiTask(91, "build", "done", <<>>, 1, 1),
     AiTask(30, "study", "done", <<>>, 1, 1),
     AiTask(30, "build", "", <<>>, 1, 1),
     AiTask(30, "build", "done", <<>>, 0, 1),
     AiTask(30, "build", "done", <<>>, input.timelineWeeks + 1, 1),
     AiTask(30, "build", "done", <<StaleId>>, 1, 1)}
    \cup {AiTask(30, "build", "done", <<id>>, 1, 1) : id \in Range(input.remainingTasks)}

FillerAiTask == AiTask(30, "practice", "done", <<>>, 1, 1)

Batch(first, n) == [k \in 1..n |-> IF k = 1 THEN first ELSE FillerAiTask]

\* JSON values a text may hold: batches of the asked size or of size one,
\* and an object without tasks
Responses(input) ==
    {[tasks |-> Batch(first, n)] :
        first \in GoodAiTasks(input) \cup BadAiTasks(input),
        n \in {batchSizeAsked(input.remainingTasks), 1}}
    \cup {[object |-> TRUE]}

\* every body bare, and two of them in fences
Texts(input) ==
    {GenText(FALSE, b) : b \in {NotJson} \cup {Json(v) : v \in Responses(input)}}
    \cup {GenText(TRUE, NotJson),
          GenText(TRUE, Json([tasks |-> Batch(FillerAiTask, batchSizeAsked(input.remainingTasks))]))}

\* runs: the first or the last model answers on the SDK path, or none
\* does; then on the REST path the first model answers, or every model
\* before the last fails in one way and the last answers, or every model
\* fails in one way
AnswerAt == {1, NumModels, NumModels + 1}

RestFailures == {RestNotOk, RestNoText, RestFetchError, RestText(GenText(FALSE, NotJson))}

Runs(input) ==
    {[sdk |-> [i \in 1..NumModels |-> IF i < k THEN SdkNotFound ELSE o],
      rest |-> [i \in 1..NumModels |-> RestNotOk]] :
        k \in AnswerAt \ {NumModels + 1},
        o \in {SdkOtherError} \cup {SdkText(t) : t \in Texts(input)}}
    \cup
    {[sdk |-> [i \in 1..NumModels |-> SdkNotFound],
      rest |-> [i \in 1..NumModels |-> RestText(t)]] : t \in Texts(input)}
    \cup
    {[sdk |-> [i \in 1..NumModels |-> SdkNotFound],
      rest |-> [i \in 1..NumModels |-> IF i < NumModels THEN f ELSE RestText(t)]] :
        f \in RestFailures, t \in Texts(input)}
    \cup
    {[sdk |-> [i \in 1..NumModels |-> SdkNotFound],
      rest |-> [i \in 1..NumModels |-> f]] : f \in RestFailures}

(***************************************************************************)
(* POST /api/plan/replan, the endpoint handleReplan of the plan page       *)
(* calls: load the document, hand its completed and incomplete tasks to    *)
(* replanRemainingTasksNested, merge the returned batch and store plan and *)
(* completion list together (spec section 4.4, items 5 and 6).             *)
(***************************************************************************)
NoInput == [timelineWeeks |-> 0, completedTasks |-> <<>>, remainingTasks |-> <<>>]

RpIdle ==
    [pc |-> "idle", input |-> NoInput, generation |-> "", result |-> Thrown(""),
     status |-> 0]

\* the request has ended with a status; the batch is not kept
RpDone(status) == [rp EXCEPT !.pc = "done", !.status = status, !.input = NoInput,
                               !.result = Thrown("")]

\* the ids of the flattened tasks that are, and that are not, in the
\* completion list
ReplanInput ==
    LET f == flat
        C == completedSet
        ids == [k \in 1..Len(f) |-> f[k].id]
    IN  [timelineWeeks |-> timelineWeeks,
         completedTasks |-> SelectSeq(ids, LAMBDA id : id \in C),
         remainingTasks |-> SelectSeq(ids, LAMBDA id : id \notin C)]

\* the batch has the asked size and every task satisfies the task schema,
\* lies in the remaining weeks and has prereqs among the completed tasks
ValidBatch(v, input) ==
    /\ "tasks" \in DOMAIN v
    /\ Len(v.tasks) = batchSizeAsked(input.remainingTasks)
    /\ \A k \in 1..Len(v.tasks) :
          /\ v.tasks[k].minutes \in 15..90
          /\ v.tasks[k].category \in Categories
          /\ v.tasks[k].successCriteria # ""
          /\ v.tasks[k].week \in 1..input.timelineWeeks
          /\ Range(v.tasks[k].prereqs) \subseteq Range(input.completedTasks)

\* the tasks of the replaced set are removed from their milestones
RemoveReplaced(p, completedIds) ==
    [weeks |-> [i \in 1..Len(p.weeks) |->
        [week |-> p.weeks[i].week,
         milestones |-> [j \in 1..Len(p.weeks[i].milestones) |->
            [name |-> p.weeks[i].milestones[j].name,
             tasks |-> SelectSeq(p.weeks[i].milestones[j].tasks,
                                 LAMBDA t : t.id \in completedIds)]]]]]

\* one new task goes to the first milestone named t.milestoneName of the
\* first week numbered t.week; the milestone, or the week with it, is
\* created at the end when there is none
InsertTask(p, t, id) ==
    LET nt == [id |-> id, prereqs |-> t.prereqs]
        ws == {i \in 1..Len(p.weeks) : p.weeks[i].week = t.week}
    IN  IF ws = {}
        THEN [weeks |-> Append(p.weeks,
                 [week |-> t.week,
                  milestones |-> <<[name |-> t.milestoneName, tasks |-> <<nt>>]>>])]
        ELSE LET i == CHOOSE a \in ws : \A b \in ws : a <= b
                 ms == p.weeks[i].milestones
                 js == {j \in 1..Len(ms) : ms[j].name = t.milestoneName}
             IN  IF js = {}
                 THEN [weeks |-> [p.weeks EXCEPT ![i].milestones =
                          Append(ms, [name |-> t.milestoneName, tasks |-> <<nt>>])]]
                 ELSE LET j == CHOOSE a \in js : \A b \in js : a <= b
                      IN  [weeks |-> [p.weeks EXCEPT ![i].milestones[j].tasks =
                               Append(ms[j].tasks, nt)]]

\* the first k tasks of the batch inserted in order, with ids firstId,
\* firstId + 1, ...
RECURSIVE InsertAll(_, _, _, _)
InsertAll(p, tasks, k, firstId) ==
    IF k = 0 THEN p
    ELSE InsertTask(InsertAll(p, tasks, k - 1, firstId), tasks[k], firstId + k - 1)

\* an id above every id of the plan and of the completion list
FreshId(p, completed) ==
    LET f == flattenPlan(p)
        used == {f[k].id : k \in 1..Len(f)} \cup Range(completed) \cup {0}
    IN  1 + CHOOSE a \in used : \A b \in used : b <= a

\* completed tasks are dropped as well
MergedPlanDropsCompleted(p, completed, tasks) ==
    InsertAll(RemoveReplaced(p, {}), tasks, Len(tasks), FreshId(p, completed))

MergedPlan(p, completed, tasks) ==
    InsertAll(RemoveReplaced(p, Range(completed)), tasks, Len(tasks), FreshId(p, completed))

\* the completion list is emptied
PrunedCompletedEmptied(p, completed) == <<>>

\* entries that name no task of the merged plan are pruned
PrunedCompleted(p, completed) ==
    LET f == flattenPlan(p)
    IN  SelectSeq(completed, LAMBDA id : id \in {f[k].id : k \in 1..Len(f)})

\* the request arrives while no other request for the plan is in progress
ReplanReceive ==
    /\ rp.pc \in {"idle", "done"}
    /\ nreq < MaxRequests
    /\ \A c \in Clients : req[c].pc # "update"
    /\ LET input == ReplanInput
       IN  \E run \in Runs(input) :
              rp' = [pc |-> "merge", input |-> input,
                     generation |-> GenerationOutcome(run),
                     result |-> replanRemainingTasksNested(input, run),
                     status |-> 0]
    /\ nreq' = nreq + 1
    /\ UNCHANGED <<plan, completedTaskIds, req, gen>>
    /\ UNCHANGED <<users, sessions, tokens, cookie, clock, userId, archived, archivedAt>>
    /\ UNCHANGED <<coachState, timeElapsed, timeRemaining, selectedDuration>>

\* an error of the generation step or a batch that does not validate ends
\* the request with nothing stored; otherwise plan and completion list are
\* stored together
ReplanUpdate ==
    /\ rp.pc = "merge"
    /\ IF rp.result.thrown \/ ~ValidBatch(rp.result.value, rp.input)
       THEN /\ rp' = RpDone(500)
            /\ UNCHANGED <<plan, completedTaskIds>>
       ELSE LET merged == MergedPlan(plan, completedTaskIds, rp.result.value.tasks)
            IN  /\ plan' = merged
                /\ completedTaskIds' = PrunedCompleted(merged, completedTaskIds)
                /\ rp' = RpDone(200)
    /\ UNCHANGED <<req, nreq, gen>>
    /\ UNCHANGED <<users, sessions, tokens, cookie, clock, userId, archived, archivedAt>>
    /\ UNCHANGED <<coachState, timeElapsed, timeRemaining, selectedDuration>>

(***************************************************************************)
(* models/Plan.ts (zod schemas) and lib/gemini.ts: generatePlan.  A JSON   *)
(* value is its type and content; an object is a record of its members, a  *)
(* member that is absent being JUndef.                                     *)
(***************************************************************************)
JStr(x) == [t |-> "string", v |-> x]
JNum(x) == [t |-> "number", v |-> x]
JArr(x) == [t |-> "array", v |-> x]
JUndef == [t |-> "undefined", v |-> 0]

\* z.string(), z.number(), z.enum([...]), z.array(z.string())
zString(x) == x.t = "string"
zNumber(x) == x.t = "number"
zEnum(x, values) == x.t = "string" /\ x.v \in values
zStringArray(x) == x.t = "array" /\ \A i \in 1..Len(x.v) : zString(x.v[i])

\* TaskSchema accepts the value
TaskSchemaOk(task) ==
    /\ zString(task.id)
    /\ zString(task.text)
    /\ zNumber(task.minutes)
    /\ zEnum(task.category, Categories)
    /\ zString(task.successCriteria)
    /\ (task.prereqs.t = "undefined" \/ zStringArray(task.prereqs))

\* the parsed task: prereqs: z.array(z.string()).default([])
TaskSchemaOut(task) ==
    [task EXCEPT !.prereqs = IF task.prereqs.t = "undefined" THEN JArr(<<>>) ELSE task.prereqs]

MilestoneSchemaOk(m) ==
    /\ zString(m.id)
    /\ zString(m.name)
    /\ zString(m.why)
    /\ m.tasks.t = "array"
    /\ \A k \in 1..Len(m.tasks.v) : TaskSchemaOk(m.tasks.v[k])

MilestoneSchemaOut(m) ==
    [m EXCEPT !.tasks = JArr([k \in 1..Len(m.tasks.v) |-> TaskSchemaOut(m.tasks.v[k])])]

WeekSchemaOk(w) ==
    /\ zNumber(w.week)
    /\ zString(w.theme)
    /\ w.milestones.t = "array"
    /\ \A j \in 1..Len(w.milestones.v) : MilestoneSchemaOk(w.milestones.v[j])

WeekSchemaOut(w) ==
    [w EXCEPT !.milestones =
        JArr([j \in 1..Len(w.milestones.v) |-> MilestoneSchemaOut(w.milestones.v[j])])]

PlanSchemaOk(p) ==
    /\ zString(p.title)
    /\ zString(p.summary)
    /\ p.weeks.t = "array"
    /\ \A i \in 1..Len(p.weeks.v) : WeekSchemaOk(p.weeks.v[i])

\* PlanSchema.parse(json): the parsed plan, or a ZodError
PlanSchemaParse(p) ==
    IF PlanSchemaOk(p)
    THEN Returned([p EXCEPT !.weeks = JArr([i \in 1..Len(p.weeks.v) |-> WeekSchemaOut(p.weeks.v[i])])])
    ELSE Thrown("ZodError")

\* JSON.parse, then PlanSchema.parse of the value
ParsePlan(t) ==
    IF ParseResponse(t).thrown THEN ParseResponse(t)
    ELSE PlanSchemaParse(ParseResponse(t).value)

\* the REST loop of generatePlan: a model whose text does not parse or does
\* not pass the schema is logged and the next model is tried
RECURSIVE PlanRestLoop(_, _)
PlanRestLoop(rest, i) ==
    IF i > NumModels THEN Thrown("Failed to generate content with SDK and REST API")
    ELSE IF rest[i].kind # "text" THEN PlanRestLoop(rest, i + 1)
    ELSE IF ParsePlan(rest[i].text).thrown THEN PlanRestLoop(rest, i + 1)
    ELSE ParsePlan(rest[i].text)

\* the number of fetches the REST loop of generatePlan makes from model i on
RECURSIVE PlanRestTried(_, _)
PlanRestTried(rest, i) ==
    IF i > NumModels THEN 0
    ELSE IF rest[i].kind # "text" THEN 1 + PlanRestTried(rest, i + 1)
    ELSE IF ParsePlan(rest[i].text).thrown THEN 1 + PlanRestTried(rest, i + 1)
    ELSE 1

\* the calls generatePlan makes in a run
generatePlanAttempts(run) ==
    LET s == SdkLoop(run.sdk, 1)
    IN  [sdk |-> s.tried, rest |-> IF s.done THEN 0 ELSE PlanRestTried(run.rest, 1)]

\* the REST loop runs after any failure of the SDK loop
generatePlanRestAfterAnyError(run) ==
    LET s == SdkLoop(run.sdk, 1)
    IN  IF ~s.done \/ s.out.thrown THEN PlanRestLoop(run.rest, 1)
        ELSE ParsePlan(s.out.value)

\* the REST path returns the parsed JSON without the schema
generatePlanRestUnvalidated(run) ==
    LET s == SdkLoop(run.sdk, 1)
    IN  IF ~s.done THEN RestLoop(run.rest, 1)
        ELSE IF s.out.thrown THEN s.out
        ELSE ParsePlan(s.out.value)

\* the loop over modelNamesToTry with the SDK is the one of
\* replanRemainingTasksNested
generatePlan(run) ==
    LET s == SdkLoop(run.sdk, 1)
    IN  IF ~s.done THEN PlanRestLoop(run.rest, 1)
        ELSE IF s.out.thrown THEN s.out
        ELSE ParsePlan(s.out.value)

(***************************************************************************)
(* What the generation service may answer to a plan prompt                 *)
(***************************************************************************)
GoodJsonTask ==
    [id |-> JStr("t1"), text |-> JStr("do"), minutes |-> JNum(30),
     category |-> JStr("build"), successCriteria |-> JStr("done"),
     prereqs |-> JArr(<<>>)]

\* the good task with one member changed: absent, of another type, or
\* out of the enum; minutes and successCriteria the schema does not bound
JsonTasks ==
    {GoodJsonTask}
    \cup {[GoodJsonTask EXCEPT !.id = x] : x \in {JUndef, JNum(1)}}
    \cup {[GoodJsonTask EXCEPT !.text = x] : x \in {JUndef}}
    \cup {[GoodJsonTask EXCEPT !.minutes = x] : x \in {JUndef, JStr("30"), JNum(500)}}
    \cup {[GoodJsonTask EXCEPT !.category = x] : x \in {JUndef, JStr("study"), JStr("apply")}}
    \cup {[GoodJsonTask EXCEPT !.successCriteria = x] : x \in {JUndef, JStr("")}}
    \cup {[GoodJsonTask EXCEPT !.prereqs = x] :
            x \in {JUndef, JArr(<<JStr("t0")>>), JArr(<<JNum(0)>>), JStr("t0")}}

JsonMilestone(tasks) ==
    [id |-> JStr("m1"), name |-> JStr("Setup"), why |-> JStr("because"), tasks |-> tasks]

JsonWeek(milestones) == [week |-> JNum(1), theme |-> JStr("Start"), milestones |-> milestones]

JsonPlan(weeks) == [title |-> JStr("Plan"), summary |-> JStr("A plan"), weeks |-> weeks]

JsonPlanOf(tasks) == JsonPlan(JArr(<<JsonWeek(JArr(<<JsonMilestone(JArr(tasks))>>))>>))

\* plans of one or two tasks, and plans with a container member changed
JsonPlans ==
    {JsonPlanOf(<<task>>) : task \in JsonTasks}
    \cup {JsonPlanOf(<<GoodJsonTask, task>>) : task \in JsonTasks}
    \cup {JsonPlan(JArr(<<>>)), JsonPlan(JUndef),
          [JsonPlan(JArr(<<>>)) EXCEPT !.title = JUndef],
          JsonPlan(JArr(<<JsonWeek(JArr(<<>>))>>)),
          JsonPlan(JArr(<<[JsonWeek(JArr(<<>>)) EXCEPT !.week = JStr("1")]>>)),
          JsonPlan(JArr(<<JsonWeek(JArr(<<JsonMilestone(JStr("none"))>>))>>)),
          JsonPlan(JArr(<<JsonWeek(JArr(<<[JsonMilestone(JArr(<<>>)) EXCEPT !.name = JUndef]>>))>>))}

PlanTexts ==
    {GenText(f, b) : f \in BOOLEAN, b \in {NotJson} \cup {Json(v) : v \in JsonPlans}}

PlanRuns ==
    {[sdk |-> [i \in 1..NumModels |-> IF i < k THEN SdkNotFound ELSE o],
      rest |-> [i \in 1..NumModels |-> RestNotOk]] :
        k \in AnswerAt \ {NumModels + 1},
        o \in {SdkOtherError} \cup {SdkText(t) : t \in PlanTexts}}
    \cup
    {[sdk |-> [i \in 1..NumModels |-> SdkNotFound],
      rest |-> [i \in 1..NumModels |-> IF i < k THEN f ELSE RestText(t)]] :
        k \in AnswerAt,
        f \in {RestNotOk, RestNoText, RestFetchError, RestText(GenText(FALSE, NotJson)),
               RestText(GenText(FALSE, Json(JsonPlan(JUndef))))},
        t \in PlanTexts}

\* a call of generatePlan: not started, or ended with its result
GenIdle == [pc |-> "idle", run |-> <<>>, result |-> Thrown("")]

GeneratePlanCall ==
    /\ gen.pc = "start"
    /\ gen' = [gen EXCEPT !.pc = "done", !.result = generatePlan(gen.run)]
    /\ UNCHANGED <<plan, completedTaskIds, req, nreq, rp>>
    /\ UNCHANGED <<users, sessions, tokens, cookie, clock, userId, archived, archivedAt>>
    /\ UNCHANGED <<coachState, timeElapsed, timeRemaining, selectedDuration>>

(***************************************************************************)
(* lib/auth.ts and the routes under /api/auth.  Strings that the code      *)
(* trims, lower-cases or measures are sequences of characters; a user's    *)
(* _id is its position in the users collection; a session token is the     *)
(* number of the randomUUID() call that made it (UUIDs do not repeat);     *)
(* cookie[c] is the session_token cookie of browser c, 0 for none; the     *)
(* clock counts days.                                                      *)
(***************************************************************************)
\* String.prototype.trim
trim(s) ==
    LET keep == {i \in 1..Len(s) : s[i] # " "}
    IN  IF keep = {} THEN <<>>
        ELSE SubSeq(s, CHOOSE i \in keep : \A j \in keep : i <= j,
                       CHOOSE i \in keep : \A j \in keep : i >= j)

\* String.prototype.toLowerCase
toLowerCase(s) ==
    [i \in 1..Len(s) |-> IF s[i] = "A" THEN "a" ELSE IF s[i] = "B" THEN "b" ELSE s[i]]

\* expiresAt.setDate(expiresAt.getDate() + 30)
SessionDays == 30

\* a session is accepted up to and including its expiry date
getCurrentUserAcceptsExpired(sessionToken) ==
    IF sessionToken = 0 THEN Null
    ELSE LET found == {x \in sessions : x.token = sessionToken /\ x.expiresAt >= clock}
         IN  IF found = {} THEN Null
             ELSE LET session == CHOOSE x \in found : TRUE
                  IN  IF session.userId \notin 1..Len(users) THEN Null
                      ELSE [_id |-> session.userId, email |-> users[session.userId].email]

\* no cookie, no session {token, expiresAt: {$gt: new Date()}} or no user of
\* the session's userId give null
getCurrentUser(sessionToken) ==
    IF sessionToken = 0 THEN Null
    ELSE LET found == {x \in sessions : x.token = sessionToken /\ x.expiresAt > clock}
         IN  IF found = {} THEN Null
             ELSE LET session == CHOOSE x \in found : TRUE
                  IN  IF session.userId \notin 1..Len(users) THEN Null
                      ELSE [_id |-> session.userId, email |-> users[session.userId].email]

\* POST /api/auth/signup up to and including usersCollection.findOne({email})
SignupReceive(c, rawEmail, rawPassword) ==
    LET email == toLowerCase(trim(rawEmail))
        password == trim(rawPassword)
        existing == \E i \in 1..Len(users) : users[i].email = email
    IN  /\ req[c].pc \in {"idle", "done"}
        /\ req' = [req EXCEPT ![c] =
                     IF email = <<>> \/ "@" \notin Range(email) THEN Failed(400)
                     ELSE IF Len(password) < 6 THEN Failed(400)
                     ELSE IF existing THEN Failed(400)
                     ELSE [pc |-> "insert", email |-> email,
                           passwordHash |-> [base64 |-> password], status |-> 0]]
        /\ nreq' = nreq + 1
        /\ UNCHANGED <<plan, completedTaskIds, rp, gen>>
        /\ UNCHANGED <<users, sessions, tokens, cookie, clock, userId, archived, archivedAt>>
        /\ UNCHANGED <<coachState, timeElapsed, timeRemaining, selectedDuration>>

\* usersCollection.insertOne, createSession(userId), the cookie and the reply
SignupInsert(c) ==
    /\ req[c].pc = "insert"
    /\ users' = Append(users, [email |-> req[c].email, passwordHash |-> req[c].passwordHash])
    /\ tokens' = tokens + 1
    /\ sessions' = sessions \cup {[token |-> tokens + 1, userId |-> Len(users) + 1,
                                   expiresAt |-> clock + SessionDays]}
    /\ cookie' = [cookie EXCEPT ![c] = tokens + 1]
    /\ req' = [req EXCEPT ![c] = [Idle EXCEPT !.pc = "done", !.status = 200]]
    /\ UNCHANGED <<plan, completedTaskIds, nreq, rp, gen>>
    /\ UNCHANGED <<clock, userId, archived, archivedAt>>
    /\ UNCHANGED <<coachState, timeElapsed, timeRemaining, selectedDuration>>

\* POST /api/auth/login: findOne({email}) gives the first user of that email
Login(c, rawEmail, rawPassword) ==
    LET email == toLowerCase(trim(rawEmail))
        password == trim(rawPassword)
        having == {i \in 1..Len(users) : users[i].email = email}
        user == CHOOSE i \in having : \A j \in having : i <= j
        ok == /\ email # <<>>
              /\ password # <<>>
              /\ having # {}
              /\ users[user].passwordHash = [base64 |-> password]
    IN  /\ req[c].pc \in {"idle", "done"}
        /\ req' = [req EXCEPT ![c] =
                     IF email = <<>> \/ password = <<>> THEN Failed(400)
                     ELSE IF ~ok THEN Failed(401)
                     ELSE [Idle EXCEPT !.pc = "done", !.status = 200]]
        /\ tokens' = IF ok THEN tokens + 1 ELSE tokens
        /\ sessions' = IF ok
                       THEN sessions \cup {[token |-> tokens + 1, userId |-> user,
                                            expiresAt |-> clock + SessionDays]}
                       ELSE sessions
        /\ cookie' = IF ok THEN [cookie EXCEPT ![c] = tokens + 1] ELSE cookie
        /\ nreq' = nreq + 1
        /\ UNCHANGED <<plan, completedTaskIds, rp, gen>>
        /\ UNCHANGED <<users, clock, userId, archived, archivedAt>>
        /\ UNCHANGED <<coachState, timeElapsed, timeRemaining, selectedDuration>>

\* POST /api/auth/logout: deleteSession(sessionToken) when there is a cookie,
\* then the cookie is cleared
Logout(c) ==
    /\ req[c].pc \in {"idle", "done"}
    /\ sessions' = {x \in sessions : x.token # cookie[c]}
    /\ cookie' = [cookie EXCEPT ![c] = 0]
    /\ req' = [req EXCEPT ![c] = [Idle EXCEPT !.pc = "done", !.status = 200]]
    /\ nreq' = nreq + 1
    /\ UNCHANGED <<plan, completedTaskIds, rp, gen>>
    /\ UNCHANGED <<users, tokens, clock, userId, archived, archivedAt>>
    /\ UNCHANGED <<coachState, timeElapsed, timeRemaining, selectedDuration>>

\* half a session's lifetime passes
ClockAdvance ==
    /\ clock < SessionDays
    /\ clock' = clock + SessionDays \div 2
    /\ UNCHANGED <<plan, completedTaskIds, req, nreq, rp, gen>>
    /\ UNCHANGED <<users, sessions, tokens, cookie, userId, archived, archivedAt>>
    /\ UNCHANGED <<coachState, timeElapsed, timeRemaining, selectedDuration>>

(***************************************************************************)
(* POST /api/plan/archive.  The plan document is the one stored under      *)
(* PlanId; userId is its userId field; archived and archivedAt are <<>>    *)
(* while the document has no such field.                                   *)
(***************************************************************************)
\* the handler up to and including findOne({_id, userId: user._id});
\* archived is Boolean(body.archived)
ArchiveReceive(c, planId, flag) ==
    LET user == getCurrentUser(cookie[c])
    IN  /\ req[c].pc \in {"idle", "done"}
        /\ req' = [req EXCEPT ![c] =
                     IF user = Null THEN Failed(401)
                     ELSE IF planId = NoPlanId THEN Failed(400)
                     ELSE IF planId = BadPlanId THEN Failed(500)
                     ELSE IF ~(planId = PlanId /\ userId = user._id) THEN Failed(404)
                     ELSE [pc |-> "archive", archived |-> flag, user |-> user._id,
                           status |-> 0]]
        /\ nreq' = nreq + 1
        /\ UNCHANGED <<plan, completedTaskIds, rp, gen>>
        /\ UNCHANGED <<users, sessions, tokens, cookie, clock, userId, archived, archivedAt>>
        /\ UNCHANGED <<coachState, timeElapsed, timeRemaining, selectedDuration>>

\* unarchiving leaves archivedAt in place
ArchiveUpdateKeepsArchivedAt(c) ==
    /\ req[c].pc = "archive"
    /\ archived' = <<req[c].archived>>
    /\ archivedAt' = IF req[c].archived THEN <<clock>> ELSE archivedAt
    /\ req' = [req EXCEPT ![c] = [Idle EXCEPT !.pc = "done", !.status = 200]]
    /\ UNCHANGED <<plan, completedTaskIds, nreq, rp, gen>>
    /\ UNCHANGED <<users, sessions, tokens, cookie, clock, userId>>
    /\ UNCHANGED <<coachState, timeElapsed, timeRemaining, selectedDuration>>

\* updateOne({_id, userId: user._id}, archived ? {$set: {archived: true,
\* archivedAt}} : {$set: {archived: false}, $unset: {archivedAt}}) and the
\* reply
ArchiveUpdate(c) ==
    /\ req[c].pc = "archive"
    /\ archived' = <<req[c].archived>>
    /\ archivedAt' = IF req[c].archived THEN <<clock>> ELSE <<>>
    /\ req' = [req EXCEPT ![c] = [Idle EXCEPT !.pc = "done", !.status = 200]]
    /\ UNCHANGED <<plan, completedTaskIds, nreq, rp, gen>>
    /\ UNCHANGED <<users, sessions, tokens, cookie, clock, userId>>
    /\ UNCHANGED <<coachState, timeElapsed, timeRemaining, selectedDuration>>

(***************************************************************************)
(* components/FocusCoach.tsx: state, timeElapsed, timeRemaining and        *)
(* selectedDuration of the component                                       *)
(***************************************************************************)
\* useEffect on task?.id: the reset when the task changes
TaskChanged(minutes) ==
    /\ coachState' = "idle"
    /\ timeElapsed' = 0
    /\ selectedDuration' = minutes
    /\ timeRemaining' = minutes * 60
    /\ UNCHANGED <<plan, completedTaskIds, req, nreq, rp, gen>>
    /\ UNCHANGED <<users, sessions, tokens, cookie, clock, userId, archived, archivedAt>>

\* a duration button or the custom input, shown while idle
SelectDuration(minutes) ==
    /\ coachState = "idle"
    /\ selectedDuration' = minutes
    /\ timeRemaining' = minutes * 60
    /\ timeElapsed' = 0
    /\ UNCHANGED coachState
    /\ UNCHANGED <<plan, completedTaskIds, req, nreq, rp, gen>>
    /\ UNCHANGED <<users, sessions, tokens, cookie, clock, userId, archived, archivedAt>>

\* a button whose handler is setState(to), shown in the states from
SetState(from, to) ==
    /\ coachState \in from
    /\ coachState' = to
    /\ UNCHANGED <<timeElapsed, timeRemaining, selectedDuration>>
    /\ UNCHANGED <<plan, completedTaskIds, req, nreq, rp, gen>>
    /\ UNCHANGED <<users, sessions, tokens, cookie, clock, userId, archived, archivedAt>>

\* "Start Focus Session": if (selectedDuration > 0) setState("running")
StartFocusSession ==
    /\ selectedDuration > 0
    /\ SetState({"idle"}, "running")

\* the setInterval callback of the timer effect, which runs while state is
\* "running" and selectedDuration > 0
TimerTick ==
    LET totalSeconds == selectedDuration * 60
        newElapsed == timeElapsed + 1
        newRemaining == IF totalSeconds - newElapsed > 0 THEN totalSeconds - newElapsed ELSE 0
        midwayPoint == totalSeconds \div 2
    IN  /\ coachState = "running"
        /\ selectedDuration > 0
        /\ timeElapsed < 60 * (MaxMinutes + 1)
        /\ timeElapsed' = newElapsed
        /\ timeRemaining' = newRemaining
        /\ coachState' = IF newRemaining = 0 THEN "idle"
                         ELSE IF newElapsed = midwayPoint /\ newElapsed > 0 THEN "checkin"
                         ELSE coachState
        /\ UNCHANGED selectedDuration
        /\ UNCHANGED <<plan, completedTaskIds, req, nreq, rp, gen>>
        /\ UNCHANGED <<users, sessions, tokens, cookie, clock, userId, archived, archivedAt>>

(***************************************************************************)
(* Properties                                                              *)
(***************************************************************************)
\* C1: getNextReadyTask returns the first task in flattened document order
\* that is not completed and has every prereq completed, skipping completed
\* and blocked tasks alike, and returns null exactly when there is no such
\* task.
C1_NextReadyIsFirstReady ==
    LET f == flat
        C == completedSet
        ready == {k \in 1..Len(f) : f[k].id \notin C /\ Range(f[k].prereqs) \subseteq C}
    IN  IF ready = {} THEN todayTask = Null
        ELSE todayTask = f[CHOOSE k \in ready : \A j \in ready : k <= j]

\* a later ready task is returned past an earlier incomplete, blocked one,
\* after some toggle has been stored
C1_Witness ==
    LET f == flat
        C == completedSet
        t == todayTask
    IN  /\ C # {}
        /\ \E k \in 2..Len(f) :
              /\ t = f[k]
              /\ \E j \in 1..(k - 1) :
                    f[j].id \notin C /\ ~(Range(f[j].prereqs) \subseteq C)

\* C2: flattenPlan returns as many elements as the plan has tasks, in
\* document order, each carrying the week number and milestone name of
\* the container it came from; empty plans, weeks and milestones flatten
\* without error.
C2_FlattenPreservesOrder ==
    LET f == flat
        ws == plan.weeks
        inWeek(i) == SumSeq([j \in 1..Len(ws[i].milestones) |-> Len(ws[i].milestones[j].tasks)])
        before(i, j) == SumSeq([a \in 1..(i - 1) |-> inWeek(a)])
                        + SumSeq([b \in 1..(j - 1) |-> Len(ws[i].milestones[b].tasks)])
    IN  /\ Len(f) = SumSeq([i \in 1..Len(ws) |-> inWeek(i)])
        /\ \A i \in 1..Len(ws) : \A j \in 1..Len(ws[i].milestones) :
              \A k \in 1..Len(ws[i].milestones[j].tasks) :
                  f[before(i, j) + k] =
                      [id |-> ws[i].milestones[j].tasks[k].id,
                       prereqs |-> ws[i].milestones[j].tasks[k].prereqs,
                       week |-> ws[i].week,
                       milestoneName |-> ws[i].milestones[j].name]

\* a plan with an empty milestone and tasks in two different weeks,
\* flattened after the first task was completed
C2_Witness ==
    LET f == flat
    IN  /\ Len(f) = 2
        /\ done = 1
        /\ f[1].week # f[2].week
        /\ \E i \in 1..Len(plan.weeks) : \E j \in 1..Len(plan.weeks[i].milestones) :
              plan.weeks[i].milestones[j].tasks = <<>>

\* C3: two concurrent toggle requests for different task ids of one plan
\* that both return success are both reflected in the stored
\* completedTaskIds (here: the only two requests made on a fresh plan).
C3_ConcurrentTogglesBothStored ==
    LET f == flat
    IN  \A c1 \in Clients : \A c2 \in Clients :
            (/\ c1 # c2
             /\ nreq = 2
             /\ req[c1].pc = "done" /\ req[c1].status = 200
             /\ req[c2].pc = "done" /\ req[c2].status = 200
             /\ req[c1].taskId # req[c2].taskId
             /\ {req[c1].taskId, req[c2].taskId} \subseteq {f[k].id : k \in 1..Len(f)})
            => {req[c1].taskId, req[c2].taskId} \subseteq completedSet

\* C4: a task with a prereq that names no task of the plan is never
\* returned by getNextReadyTask, whatever toggle requests were made.
C4_DanglingPrereqNeverReady ==
    LET f == flat
        t == todayTask
    IN  t # Null => Range(t.prereqs) \subseteq {f[k].id : k \in 1..Len(f)}

\* C5: starting from the empty completed set, after any sequence of toggle
\* requests getNextReadyTask never returns a task that lies on a prereq
\* cycle.
C5_CycleTaskNeverReady ==
    LET f == flat
        t == todayTask
        n == Len(f)
        needs(a, b) == f[b].id \in Range(f[a].prereqs)
        onCycle(k) ==
            \E m \in 1..n : \E path \in [1..m -> 1..n] :
                /\ path[1] = k
                /\ \A i \in 1..(m - 1) : needs(path[i], path[i + 1])
                /\ needs(path[m], k)
    IN  \A k \in 1..n : t = f[k] => ~onCycle(k)

\* C6: with two tasks that list each other as prereq both incomplete, and
\* every other task complete or blocked, getNextReadyTask returns null.
C6_MutualCycleYieldsNull ==
    LET f == flat
        C == completedSet
    IN  \A a \in 1..Len(f) : \A b \in 1..Len(f) :
            (/\ a # b
             /\ f[b].id \in Range(f[a].prereqs)
             /\ f[a].id \in Range(f[b].prereqs)
             /\ f[a].id \notin C
             /\ f[b].id \notin C
             /\ \A k \in 1..Len(f) :
                   k \notin {a, b} =>
                       (f[k].id \in C \/ ~(Range(f[k].prereqs) \subseteq C)))
            => todayTask = Null

\* a mutual cycle with both tasks incomplete, scanned after a toggle was stored
C6_Witness ==
    LET f == flat
        C == completedSet
    IN  /\ C # {}
        /\ todayTask = Null
        /\ \E a \in 1..Len(f) : \E b \in 1..Len(f) :
              /\ a # b
              /\ f[b].id \in Range(f[a].prereqs)
              /\ f[a].id \in Range(f[b].prereqs)
              /\ f[a].id \notin C
              /\ f[b].id \notin C

\* C7: readiness is monotone in the completed set: for A a subset of B, a
\* task whose prereqs are all in A has them all in B, so a task incomplete
\* and unblocked under A is under B completed or still unblocked; in
\* particular the task getNextReadyTask returns under A.
C7_ReadinessMonotone ==
    LET f == flat
        B == completedSet
    IN  \A A \in SUBSET B :
            /\ \A k \in 1..Len(f) :
                  /\ prereqsDone(f[k], A) => prereqsDone(f[k], B)
                  /\ (f[k].id \notin A /\ prereqsDone(f[k], A))
                        => (f[k].id \in B \/ prereqsDone(f[k], B))
            /\ LET t == getNextReadyTask(f, A)
               IN  t # Null => (t.id \in B \/ prereqsDone(t, B))

\* a task with prereqs that is unblocked under a proper subset of the
\* stored completed set and is the task returned under the stored set
C7_Witness ==
    LET f == flat
        B == completedSet
        t == todayTask
    IN  \E k \in 1..Len(f) : \E A \in SUBSET B :
            /\ A # B
            /\ f[k].prereqs # <<>>
            /\ f[k].id \notin B
            /\ prereqsDone(f[k], A)
            /\ t = f[k]

\* C8: countCompleted ignores stale ids: adding to the completed set any
\* ids that are not ids of tasks of the plan leaves the count the same, the
\* count equals the count over the set with the stale ids filtered out, and
\* it never exceeds countTotalTasks.
C8_CountIgnoresStaleIds ==
    LET f == flat
        C == completedSet
        ids == {f[k].id : k \in 1..Len(f)}
        n == countCompleted(f, C)
    IN  /\ \A S \in SUBSET (AllIds \ ids) : countCompleted(f, C \cup S) = n
        /\ n = countCompleted(f, C \cap ids)
        /\ n <= countTotalTasks(f)

\* the stored completed set holds a stale id next to the id of a task
C8_Witness ==
    LET f == flat
    IN  /\ done >= 1
        /\ \E x \in completedSet : x \notin {f[k].id : k \in 1..Len(f)}

\* C9: the progress percentage of the plan page equals
\* round(100 * completed / total), is 0 when total is 0, and lies in 0..100.
C9_PagePercentageIsRounded ==
    /\ progressPercentage =
          JsInt(IF total = 0 THEN 0 ELSE (200 * done + total) \div (2 * total))
    /\ progressPercentage.val \in 0..100

\* C10: the percentage of ProgressMeter equals round(100 * completed / total)
\* when total > 0 and is 0 when total is 0.
C10_ProgressMeterPercentage ==
    ProgressMeterPct(done, total) =
        JsInt(IF total = 0 THEN 0 ELSE (200 * done + total) \div (2 * total))

\* C11: after any sequence of toggle requests the completed count the home
\* page uses for the plan is at most the plan's totalTasks and the derived
\* percentage lies in 0..100.
C11_HomeProgressWithinTotal ==
    /\ homeCompletedCount <= formattedPlan.totalTasks
    /\ homeProgress \in {JsInt(n) : n \in 0..100}

\* C12: getProgressMilestone assigns every integer percentage 0..100 to
\* exactly one of the bands 0, 1..24, 25..74, 75..99, 100, with no gaps or
\* overlaps, and 100 is the only percentage mapped to "Summit Reached"; the
\* band shown on the plan page, once the requests sent are answered, is the
\* band of the percentage shown.
C12_MilestoneBandsPartition ==
    LET bands == << {0}, 1..24, 25..74, 75..99, {100} >>
        label == << [name |-> "Base Camp", description |-> "Starting your journey"],
                    [name |-> "Base Camp", description |-> "Preparing for the climb"],
                    [name |-> "Climbing", description |-> "Making steady progress"],
                    [name |-> "Summit", description |-> "Almost at the top"],
                    [name |-> "Summit Reached", description |-> "Journey complete!"] >>
        f == flat
        d == countCompleted(f, completedSet)
        n == countTotalTasks(f)
    IN  /\ \A p \in 0..100 :
              LET got == getProgressMilestone(JsInt(p))
                  hit == {b \in 1..5 : got = label[b]}
              IN  /\ Cardinality(hit) = 1
                  /\ \A b \in 1..5 : b \in hit <=> p \in bands[b]
                  /\ got.name = "Summit Reached" <=> p = 100
        /\ (\A c \in Clients : req[c].pc # "update") =>
              LET shown == Percentage(d, n)
              IN  \E b \in 1..5 : shown.val \in bands[b] /\ getProgressMilestone(shown) = label[b]

\* the page of a plan whose every task was checked off shows 100 percent
\* and the terminal band
C12_Witness ==
    /\ total > 0
    /\ done = total
    /\ progressPercentage = JsInt(100)
    /\ milestone.name = "Summit Reached"

C14_ReplanAtomicOnFailure ==
    [][(rp.pc = "merge" /\ rp'.pc = "done" /\ rp.generation # "parsed") =>
          /\ rp.result.thrown
          /\ rp'.status = 500
          /\ plan' = plan
          /\ completedTaskIds' = completedTaskIds]_vars

\* a replan of a plan with completed and incomplete tasks has ended after
\* the generation step failed
C14_Witness ==
    /\ rp.pc = "done"
    /\ rp.generation \in {"unparseable", "none", "error"}
    /\ rp.status = 500
    /\ done >= 1
    /\ done < total

\* C15: every task of a batch returned by replanRemainingTasksNested has
\* prereqs only among the ids of the completedTasks passed in.
C15_BatchPrereqsAmongCompleted ==
    (rp.pc = "merge" /\ ~rp.result.thrown /\ "tasks" \in DOMAIN rp.result.value) =>
        \A k \in 1..Len(rp.result.value.tasks) :
            Range(rp.result.value.tasks[k].prereqs) \subseteq Range(rp.input.completedTasks)

\* C16: every task of a batch returned by replanRemainingTasksNested has
\* minutes within 15..90, one of the five categories, non-empty
\* successCriteria and week within 1..timelineWeeks.
C16_BatchTasksSatisfySchema ==
    (rp.pc = "merge" /\ ~rp.result.thrown /\ "tasks" \in DOMAIN rp.result.value) =>
        \A k \in 1..Len(rp.result.value.tasks) :
            /\ rp.result.value.tasks[k].minutes \in 15..90
            /\ rp.result.value.tasks[k].category \in Categories
            /\ rp.result.value.tasks[k].successCriteria # ""
            /\ rp.result.value.tasks[k].week \in 1..rp.input.timelineWeeks

\* C17: for a replan request with r remaining tasks the batch returned has
\* exactly max(5, min(30, r + 5)) tasks.
C17_BatchSizeAsAsked ==
    (rp.pc = "merge" /\ ~rp.result.thrown) =>
        /\ "tasks" \in DOMAIN rp.result.value
        /\ LET r == Len(rp.input.remainingTasks)
               n == Len(rp.result.value.tasks)
           IN  /\ n >= 5
               /\ n <= 30
               /\ (r + 5 \in 5..30 => n = r + 5)
               /\ (r + 5 > 30 => n = 30)

\* C18: a successful replan-merge leaves every task whose id is in the
\* completion list in the plan, in the same week and milestone and with
\* identical content; only tasks of the replaced set are removed.
C18_MergeKeepsCompletedTasks ==
    [][(rp.pc = "merge" /\ rp'.pc = "done" /\ rp'.status = 200) =>
          \A i \in 1..Len(plan.weeks) : \A j \in 1..Len(plan.weeks[i].milestones) :
              \A k \in 1..Len(plan.weeks[i].milestones[j].tasks) :
                  LET t == plan.weeks[i].milestones[j].tasks[k]
                      kept == /\ i <= Len(plan'.weeks)
                              /\ plan'.weeks[i].week = plan.weeks[i].week
                              /\ j <= Len(plan'.weeks[i].milestones)
                              /\ plan'.weeks[i].milestones[j].name = plan.weeks[i].milestones[j].name
                              /\ t \in Range(plan'.weeks[i].milestones[j].tasks)
                  IN  /\ t.id \in completedSet => kept
                      /\ ~kept => t.id \notin completedSet]_vars

\* a merge has ended with success on a plan that keeps a completed task
\* and has lost a task of the initial plan
C18_Witness ==
    LET f == flat
        ids == {f[k].id : k \in 1..Len(f)}
    IN  /\ rp.pc = "done"
        /\ rp.status = 200
        /\ done >= 1
        /\ \E id \in TaskIds : id \notin ids /\ \E other \in ids : other > id

\* C19: after a successful replan-merge the stored completion list holds
\* no id of a removed task, and every entry that referred to a task outside
\* the replaced set is carried over unchanged.
C19_MergePrunesCompletedSet ==
    [][(rp.pc = "merge" /\ rp'.pc = "done" /\ rp'.status = 200) =>
          LET before == {flat[k].id : k \in 1..Len(flat)}
              after == {flat'[k].id : k \in 1..Len(flat')}
              keptEntries(list) == SelectSeq(list, LAMBDA id : id \in before \cap after)
          IN  /\ completedSet' \cap (before \ after) = {}
              /\ keptEntries(completedTaskIds') = keptEntries(completedTaskIds)
              /\ completedSet \cap before \subseteq completedSet']_vars

\* a merge has ended with success: task 1 was removed, and the completion
\* list still names task 2, which is still in the plan
C19_Witness ==
    LET f == flat
        ids == {f[k].id : k \in 1..Len(f)}
    IN  /\ rp.pc = "done"
        /\ rp.status = 200
        /\ completedTaskIds = <<2>>
        /\ 2 \in ids
        /\ 1 \notin ids

\* C20: on the SDK path and on the REST path generatePlan returns a parsed
\* model output only if it passes PlanSchema: every task of the returned
\* plan has a string id and text, numeric minutes, a category of the five,
\* a string successCriteria and a list of strings as prereqs (empty when
\* the output had none); otherwise the call ends in an error.
C20_GeneratedPlanPassesSchema ==
    (gen.pc = "done" /\ ~gen.result.thrown) =>
        LET p == gen.result.value
        IN  /\ p.title.t = "string"
            /\ p.summary.t = "string"
            /\ p.weeks.t = "array"
            /\ \A i \in 1..Len(p.weeks.v) :
                  LET w == p.weeks.v[i]
                  IN  /\ w.week.t = "number"
                      /\ w.theme.t = "string"
                      /\ w.milestones.t = "array"
                      /\ \A j \in 1..Len(w.milestones.v) :
                            LET m == w.milestones.v[j]
                            IN  /\ m.id.t = "string"
                                /\ m.name.t = "string"
                                /\ m.why.t = "string"
                                /\ m.tasks.t = "array"
                                /\ \A k \in 1..Len(m.tasks.v) :
                                      LET task == m.tasks.v[k]
                                      IN  /\ task.id.t = "string"
                                          /\ task.text.t = "string"
                                          /\ task.minutes.t = "number"
                                          /\ task.category.t = "string"
                                          /\ task.category.v \in Categories
                                          /\ task.successCriteria.t = "string"
                                          /\ task.prereqs.t = "array"
                                          /\ \A q \in 1..Len(task.prereqs.v) :
                                                task.prereqs.v[q].t = "string"

\* the REST path has returned, after the models before the last failed, a
\* plan whose second task came without prereqs and now has the empty list
C20_Witness ==
    /\ gen.pc = "done"
    /\ ~gen.result.thrown
    /\ \A i \in 1..NumModels : gen.run.sdk[i] = SdkNotFound
    /\ gen.run.rest[1].kind # "text"
    /\ gen.run.rest[NumModels].kind = "text"
    /\ gen.run.rest[NumModels].text.body.json
    /\ LET given == gen.run.rest[NumModels].text.body.value
           tasksOf(p) == p.weeks.v[1].milestones.v[1].tasks.v
       IN  /\ PlanSchemaOk(given)
           /\ Len(given.weeks.v) = 1
           /\ Len(given.weeks.v[1].milestones.v) = 1
           /\ Len(tasksOf(given)) = 2
           /\ tasksOf(given)[2].prereqs.t = "undefined"
           /\ tasksOf(gen.result.value)[2].prereqs.t = "array"
           /\ tasksOf(gen.result.value)[2].prereqs.v = <<>>

\* C21: every plan generatePlan returns has pairwise distinct task ids.
C21_GeneratedTaskIdsUnique ==
    (gen.pc = "done" /\ ~gen.result.thrown) =>
        LET p == gen.result.value
            places == {<<i, j, k>> \in (1..2) \X (1..2) \X (1..2) :
                          /\ i <= Len(p.weeks.v)
                          /\ j <= Len(p.weeks.v[i].milestones.v)
                          /\ k <= Len(p.weeks.v[i].milestones.v[j].tasks.v)}
            idAt(x) == p.weeks.v[x[1]].milestones.v[x[2]].tasks.v[x[3]].id.v
        IN  \A x \in places : \A y \in places : x # y => idAt(x) # idAt(y)

\* C22: a toggle request with an empty planId or taskId is answered 400, one
\* whose planId matches no plan, or for a logged-in user a plan of another
\* user, is answered 404, and in each of these cases the request ends there
\* and the stored completion list and plan are unchanged.
C22_ToggleErrorsChangeNothing ==
    [][\A c \in Clients : \A user \in Users : \A planId \in PlanIds :
          \A taskId \in RequestTaskIds :
              CompleteReceive(c, user, planId, taskId) =>
                  LET empty == planId = NoPlanId \/ taskId = NoTaskId
                      noPlan == planId # PlanId \/ user = Stranger
                  IN  /\ empty => req'[c].status = 400
                      /\ (~empty /\ noPlan) => req'[c].status = 404
                      /\ (empty \/ noPlan) =>
                            /\ req'[c].pc = "done"
                            /\ completedTaskIds' = completedTaskIds
                            /\ plan' = plan]_vars

\* C23 as claimed: for a plan whose prereqs all name tasks of the plan and
\* form no cycle, getNextReadyTask returns a task under every completed set
\* that leaves a task incomplete, and marking the returned task complete
\* again and again from the empty set completes one more task per step and
\* after exactly total steps every task is complete, getNextReadyTask is
\* null and the percentage is 100.
C23_ProgressReachesSummit ==
    LET f == flat
        n == Len(f)
        ids == {f[k].id : k \in 1..n}
        needs(a, b) == f[b].id \in Range(f[a].prereqs)
        onCycle(k) ==
            \E m \in 1..n : \E path \in [1..m -> 1..n] :
                /\ path[1] = k
                /\ \A i \in 1..(m - 1) : needs(path[i], path[i + 1])
                /\ needs(path[m], k)
        wellFormed ==
            \/ \A k \in 1..n : f[k].prereqs = <<>>
            \/ /\ \A k \in 1..n : Range(f[k].prereqs) \subseteq ids
               /\ \A k \in 1..n : ~onCycle(k)
        d == countCompleted(f, completedSet)
    IN  (wellFormed /\ req[1].pc # "update") =>
            /\ \A C \in (SUBSET AllIds) \cup {completedSet} :
                  (\E k \in 1..n : f[k].id \notin C) => getNextReadyTask(f, C) # Null
            /\ d = nreq
            /\ nreq <= n
            /\ nreq = n =>
                  /\ ids \subseteq completedSet
                  /\ getNextReadyTask(f, completedSet) = Null
                  /\ Percentage(d, n) = JsInt(100)

\* C23 as amended: the same, the percentage at the end being 100 for a plan
\* with at least one task and 0 for a plan with none.
C23_ProgressReachesEnd ==
    LET f == flat
        n == Len(f)
        ids == {f[k].id : k \in 1..n}
        needs(a, b) == f[b].id \in Range(f[a].prereqs)
        onCycle(k) ==
            \E m \in 1..n : \E path \in [1..m -> 1..n] :
                /\ path[1] = k
                /\ \A i \in 1..(m - 1) : needs(path[i], path[i + 1])
                /\ needs(path[m], k)
        wellFormed ==
            \/ \A k \in 1..n : f[k].prereqs = <<>>
            \/ /\ \A k \in 1..n : Range(f[k].prereqs) \subseteq ids
               /\ \A k \in 1..n : ~onCycle(k)
        d == countCompleted(f, completedSet)
    IN  (wellFormed /\ req[1].pc # "update") =>
            /\ \A C \in (SUBSET AllIds) \cup {completedSet} :
                  (\E k \in 1..n : f[k].id \notin C) => getNextReadyTask(f, C) # Null
            /\ d = nreq
            /\ nreq <= n
            /\ nreq = n =>
                  /\ ids \subseteq completedSet
                  /\ getNextReadyTask(f, completedSet) = Null
                  /\ Percentage(d, n) = JsInt(IF n > 0 THEN 100 ELSE 0)

\* a plan in which the first task needs the second has been worked through
\* to the end
C23_Witness ==
    LET f == flat
    IN  /\ Len(f) = 2
        /\ f[1].prereqs = <<f[2].id>>
        /\ f[2].prereqs = <<>>
        /\ req[1].pc = "done"
        /\ nreq = 2
        /\ completedTaskIds = <<f[2].id, f[1].id>>
        /\ todayTask = Null

\* C24: the plan page shows the "Summit Reached! You've completed your
\* journey!" message only when every task of the plan is in the completed
\* set.
C24_SummitOnlyWhenAllComplete ==
    LET f == flat
        C == completedSet
    IN  (summitReachedShown /\ req[1].pc # "update") =>
            \A k \in 1..Len(f) : f[k].id \in C

\* C25: the percentage is 100, the band is "Summit Reached" and the home
\* page lists the plan under Completed Trails only when the number of
\* completed tasks equals the number of tasks; with a task incomplete the
\* percentage is at most 99.
C25_HundredOnlyWhenAllComplete ==
    LET f == flat
        C == completedSet
        n == Len(f)
        d == countCompleted(f, C)
        pct == Percentage(d, n)
    IN  req[1].pc # "update" =>
            /\ (pct.kind = "int" /\ pct.val = 100) => d = n
            /\ d < n => (pct.kind = "int" /\ pct.val <= 99)
            /\ getProgressMilestone(pct).name = "Summit Reached" => d = n
            /\ completedPlans => d = n

\* C26: generatePlan and replanRemainingTasksNested try the models in list
\* order: only a "not found" error of the SDK advances to the next model, any
\* other SDK error is thrown at once with no further model and no REST call,
\* the REST loop runs only after every SDK attempt failed with "not found",
\* and at most NumModels SDK and NumModels REST attempts are made.
C26_ModelFallbackOrder ==
    gen.pc = "done" =>
        LET run == gen.run
            s == SdkLoop(run.sdk, 1)
            fallback(a, result) ==
                /\ a.sdk \in 1..NumModels
                /\ a.rest \in 0..NumModels
                /\ \A i \in 1..(a.sdk - 1) : run.sdk[i] = SdkNotFound
                /\ run.sdk[a.sdk] = SdkNotFound => a.sdk = NumModels
                /\ run.sdk[a.sdk] = SdkOtherError =>
                      /\ a.rest = 0
                      /\ result = Thrown("generateContent failed")
                /\ run.sdk[a.sdk].kind = "text" => a.rest = 0
                /\ a.rest > 0 => \A i \in 1..NumModels : run.sdk[i] = SdkNotFound
                /\ (\A i \in 1..NumModels : run.sdk[i] = SdkNotFound) =>
                      /\ a.rest > 0
                      /\ result.thrown => a.rest = NumModels
                      /\ ~result.thrown => run.rest[a.rest].kind = "text"
        IN  /\ fallback(generatePlanAttempts(run), gen.result)
            /\ fallback(replanAttempts(run), replanRemainingTasksNested(NoInput, run))

\* five models were not found and the sixth failed otherwise: the call threw
\* that error after six SDK attempts and no REST attempt
C26_Witness ==
    /\ gen.pc = "done"
    /\ \A i \in 1..(NumModels - 1) : gen.run.sdk[i] = SdkNotFound
    /\ gen.run.sdk[NumModels] = SdkOtherError
    /\ generatePlanAttempts(gen.run) = [sdk |-> NumModels, rest |-> 0]
    /\ gen.result = Thrown("generateContent failed")

\* C27: getCurrentUser returns a user for a token only if a stored session
\* has that token, is unexpired and names an existing user; once a logout
\* carrying a token has completed, and generally once a token has stopped
\* authenticating, getCurrentUser returns null for it ever after.
C27_TokenAuthenticatesUntilLogout ==
    [][/\ \A t \in 1..tokens :
             getCurrentUser(t) # Null =>
                 \E x \in sessions : /\ x.token = t
                                     /\ x.expiresAt > clock
                                     /\ x.userId \in 1..Len(users)
       /\ \A c \in Clients : \A t \in 1..tokens :
             (t = cookie[c] /\ Logout(c)) =>
                 /\ getCurrentUser(t)' = Null
                 /\ \A x \in sessions' : x.token # t
       /\ \A t \in 1..tokens :
             getCurrentUser(t) = Null => getCurrentUser(t)' = Null]_vars

\* the owner has logged out of browser 1: the session of token 1 is gone and
\* the token authenticates nobody
C27_Witness ==
    /\ req[1].pc = "done"
    /\ req[1].status = 200
    /\ cookie[1] = 0
    /\ tokens = 1
    /\ sessions = {}
    /\ getCurrentUser(1) = Null

\* C28: no two user records have the same trimmed, lower-cased email.
C28_EmailsUnique ==
    \A i \in 1..Len(users) : \A j \in 1..Len(users) :
        i # j => users[i].email # users[j].email

\* C29: the plan document has an archivedAt exactly when archived is true; an
\* archive request of an unauthenticated caller is answered 401 and one for
\* the plan by a caller who does not own it 404, neither leading to an
\* update; only the update of an owner's request changes the two fields; and
\* no step of the route changes completedTaskIds or the plan.
C29_ArchiveFieldsAgree ==
    [][/\ (archivedAt' # <<>>) <=> (archived' = <<TRUE>>)
       /\ \A c \in Clients : \A planId \in PlanIds : \A flag \in BOOLEAN :
             ArchiveReceive(c, planId, flag) =>
                 LET user == getCurrentUser(cookie[c])
                 IN  /\ user = Null => req'[c].status = 401
                     /\ (user # Null /\ planId = PlanId /\ user._id # userId) =>
                           req'[c].status = 404
                     /\ (user = Null \/ planId # PlanId \/ user._id # userId) =>
                           req'[c].pc = "done"
                     /\ archived' = archived
                     /\ archivedAt' = archivedAt
                     /\ completedTaskIds' = completedTaskIds
                     /\ plan' = plan
       /\ \A c \in Clients :
             ArchiveUpdate(c) =>
                 /\ req[c].user = userId
                 /\ completedTaskIds' = completedTaskIds
                 /\ plan' = plan
       /\ (archived' # archived \/ archivedAt' # archivedAt) =>
             \E c \in Clients : req[c].pc = "archive" /\ req'[c].status = 200]_vars

\* the owner has archived the plan and taken it out of the archive again
C29_Witness ==
    /\ archived = <<FALSE>>
    /\ archivedAt = <<>>
    /\ nreq = 2
    /\ \A c \in Clients : req[c].pc # "archive"

\* C30: timeElapsed advances only while the coach is running, timeRemaining
\* is never negative, a session started from idle counts from zero, and the
\* timer sets idle by itself only once the selected duration has elapsed.
C30_SessionCountsFromZero ==
    [][/\ timeElapsed' > timeElapsed => coachState = "running"
       /\ timeRemaining' >= 0
       /\ (coachState = "idle" /\ coachState' = "running") =>
             /\ timeElapsed' = 0
             /\ timeRemaining' = selectedDuration' * 60
       /\ (TimerTick /\ coachState' = "idle") =>
             timeElapsed' >= selectedDuration * 60]_vars

(***************************************************************************)
(* Specifications                                                          *)
(***************************************************************************)
\* POST /api/plan/save stores the plan with completedTaskIds: []
Init ==
    /\ plan \in LinePlans
    /\ completedTaskIds = <<>>
    /\ req = [c \in Clients |-> Idle]
    /\ nreq = 0
    /\ rp = RpIdle
    /\ gen = GenIdle
    /\ users = <<>>
    /\ sessions = {}
    /\ tokens = 0
    /\ cookie = [c \in Clients |-> 0]
    /\ clock = 0
    /\ userId = 0
    /\ archived = <<>>
    /\ archivedAt = <<>>
    /\ coachState = "idle"
    /\ timeElapsed = 0
    /\ timeRemaining = 0
    /\ selectedDuration = 0

Next ==
    \E c \in Clients :
        \/ /\ nreq < MaxRequests
           /\ \E user \in Users, planId \in PlanIds, taskId \in RequestTaskIds :
                 CompleteReceive(c, user, planId, taskId)
        \/ CompleteUpdate(c)

Spec == Init /\ [][Next]_vars

\* the owner of the plan sends requests for it one at a time: every request
\* is answered before the next is sent
InitSerial ==
    /\ plan \in GraphPlans
    /\ completedTaskIds = <<>>
    /\ req = [c \in Clients |-> Idle]
    /\ nreq = 0
    /\ rp = RpIdle
    /\ gen = GenIdle
    /\ users = <<>>
    /\ sessions = {}
    /\ tokens = 0
    /\ cookie = [c \in Clients |-> 0]
    /\ clock = 0
    /\ userId = 0
    /\ archived = <<>>
    /\ archivedAt = <<>>
    /\ coachState = "idle"
    /\ timeElapsed = 0
    /\ timeRemaining = 0
    /\ selectedDuration = 0

NextSerial ==
    \/ /\ nreq < MaxRequests
       /\ \E taskId \in RequestTaskIds : CompleteReceive(1, Owner, PlanId, taskId)
    \/ CompleteUpdate(1)

SpecSerial == InitSerial /\ [][NextSerial]_vars

\* a user working through a plan with the "Reach Checkpoint" button of the
\* plan page: toggleTask(todayTask.id), one request at a time
InitProgress ==
    /\ plan \in ShapePlans \cup LongPlans \cup GraphPlans
    /\ completedTaskIds = <<>>
    /\ req = [c \in Clients |-> Idle]
    /\ nreq = 0
    /\ rp = RpIdle
    /\ gen = GenIdle
    /\ users = <<>>
    /\ sessions = {}
    /\ tokens = 0
    /\ cookie = [c \in Clients |-> 0]
    /\ clock = 0
    /\ userId = 0
    /\ archived = <<>>
    /\ archivedAt = <<>>
    /\ coachState = "idle"
    /\ timeElapsed = 0
    /\ timeRemaining = 0
    /\ selectedDuration = 0

NextProgress ==
    \/ /\ todayTask # Null
       /\ CompleteReceive(1, Owner, PlanId, todayTask.id)
    \/ CompleteUpdate(1)

SpecProgress == InitProgress /\ [][NextProgress]_vars

\* the owner works on a plan from the plan page, one request at a time:
\* checks tasks off with the checkbox of a task whose prereqs are all
\* completed, and reroutes the trail with the replan form
InitReplan ==
    /\ plan \in ReplanPlans
    /\ completedTaskIds = <<>>
    /\ req = [c \in Clients |-> Idle]
    /\ nreq = 0
    /\ rp = RpIdle
    /\ gen = GenIdle
    /\ users = <<>>
    /\ sessions = {}
    /\ tokens = 0
    /\ cookie = [c \in Clients |-> 0]
    /\ clock = 0
    /\ userId = 0
    /\ archived = <<>>
    /\ archivedAt = <<>>
    /\ coachState = "idle"
    /\ timeElapsed = 0
    /\ timeRemaining = 0
    /\ selectedDuration = 0

NextReplan ==
    \/ /\ nreq < MaxRequests
       /\ rp.pc # "merge"
       /\ \E k \in 1..Len(flat) :
             /\ prereqsDone(flat[k], completedSet)
             /\ CompleteReceive(1, Owner, PlanId, flat[k].id)
    \/ CompleteUpdate(1)
    \/ ReplanReceive
    \/ ReplanUpdate

SpecReplan == InitReplan /\ [][NextReplan]_vars

\* calls of generatePlan, one for every run of the generation service
InitGenerate ==
    /\ plan = [weeks |-> <<>>]
    /\ completedTaskIds = <<>>
    /\ req = [c \in Clients |-> Idle]
    /\ nreq = 0
    /\ rp = RpIdle
    /\ gen \in {[pc |-> "start", run |-> run, result |-> Thrown("")] : run \in PlanRuns}
    /\ users = <<>>
    /\ sessions = {}
    /\ tokens = 0
    /\ cookie = [c \in Clients |-> 0]
    /\ clock = 0
    /\ userId = 0
    /\ archived = <<>>
    /\ archivedAt = <<>>
    /\ coachState = "idle"
    /\ timeElapsed = 0
    /\ timeRemaining = 0
    /\ selectedDuration = 0

NextGenerate == GeneratePlanCall

SpecGenerate == InitGenerate /\ [][NextGenerate]_vars

\* the owner of the stored plan (user 1, logged in on browser 1 since the
\* plan was saved) and other visitors use the account routes and the
\* archive route
InitAccount ==
    /\ plan = MakePlan(<< <<1>> >>, <<[id |-> 1, prereqs |-> <<>>]>>)
    /\ completedTaskIds = <<>>
    /\ req = [c \in Clients |-> Idle]
    /\ nreq = 0
    /\ rp = RpIdle
    /\ gen = GenIdle
    /\ users = <<[email |-> <<"a", "@">>,
                  passwordHash |-> [base64 |-> <<"s", "e", "c", "r", "e", "t">>]]>>
    /\ sessions = {[token |-> 1, userId |-> 1, expiresAt |-> SessionDays]}
    /\ tokens = 1
    /\ cookie = [c \in Clients |-> IF c = 1 THEN 1 ELSE 0]
    /\ clock = 0
    /\ userId = 1
    /\ archived = <<>>
    /\ archivedAt = <<>>
    /\ coachState = "idle"
    /\ timeElapsed = 0
    /\ timeRemaining = 0
    /\ selectedDuration = 0

NextAccount ==
    LET emails == {<<"a", "@">>, <<"b", "@">>, <<" ", "B", "@", " ">>, <<"b">>, <<" ">>}
        passwords == {<<"s", "e", "c", "r", "e", "t">>, <<" ", "p", "w", " ">>}
    IN  \/ \E c \in Clients :
              \/ /\ nreq < MaxRequests
                 /\ \E e \in emails, p \in passwords : SignupReceive(c, e, p)
              \/ SignupInsert(c)
              \/ /\ nreq < MaxRequests
                 /\ \E e \in emails, p \in passwords : Login(c, e, p)
              \/ /\ nreq < MaxRequests
                 /\ Logout(c)
              \/ /\ nreq < MaxRequests
                 /\ \E planId \in PlanIds, flag \in BOOLEAN : ArchiveReceive(c, planId, flag)
              \/ ArchiveUpdate(c)
        \/ ClockAdvance

SpecAccount == InitAccount /\ [][NextAccount]_vars

\* the focus coach of the plan page, mounted with a task
InitCoach ==
    /\ plan = [weeks |-> <<>>]
    /\ completedTaskIds = <<>>
    /\ req = [c \in Clients |-> Idle]
    /\ nreq = 0
    /\ rp = RpIdle
    /\ gen = GenIdle
    /\ users = <<>>
    /\ sessions = {}
    /\ tokens = 0
    /\ cookie = [c \in Clients |-> 0]
    /\ clock = 0
    /\ userId = 0
    /\ archived = <<>>
    /\ archivedAt = <<>>
    /\ coachState = "idle"
    /\ timeElapsed = 0
    /\ selectedDuration \in 1..MaxMinutes
    /\ timeRemaining = selectedDuration * 60

\* the buttons in the order of the component: duration, Start, Pause, Stop
\* and Done, Resume and Stop while paused, "Yes" and "I'm stuck" at the
\* check-in, the micro-help arriving, Continue and Close of the help
NextCoach ==
    \/ \E minutes \in 1..MaxMinutes : TaskChanged(minutes)
    \/ \E minutes \in 1..MaxMinutes : SelectDuration(minutes)
    \/ StartFocusSession
    \/ TimerTick
    \/ SetState({"running"}, "paused")
    \/ SetState({"running", "paused"}, "idle")
    \/ SetState({"paused", "checkin", "help"}, "running")
    \/ SetState({"checkin"}, "stuck")
    \/ SetState({"stuck"}, "help")
    \/ SetState({"help"}, "idle")

SpecCoach == InitCoach /\ [][NextCoach]_vars

====
